---- MODULE Spec2Model ----
(***************************************************************************)
(* Model of lens-rs_generator/build.rs: the build script that scans every  *)
(* workspace member's source files for `#[optic]`-tagged enum variants and *)
(* named struct fields (and, with the `structx` feature, for structx!      *)
(* invocations and `#[named_args]` functions), filters the reserved names, *)
(* sorts, renders one declaration per name into optics.rs and decides      *)
(* whether to print `cargo:rerun-if-changed` directives.                   *)
(*                                                                         *)
(* Text is modelled as sequences of bytes: a name is the tuple of its      *)
(* UTF-8 bytes, the generated output is the tuple of the bytes written.    *)
(* The external parsers (syn::parse_file, syn::parse2) are opaque: a file  *)
(* carries whether it parses and the syntax tree it parses to; a macro's   *)
(* token stream carries whether it parses as a pattern and to which one.   *)
(***************************************************************************)
EXTENDS Integers, Sequences, FiniteSets, TLC

(***************************************************************************)
(* Bounds of the model.                                                    *)
(***************************************************************************)
\* workspace members (sections) returned by inwelling()
MaxMembers == 2
\* source files over the whole workspace
MaxFiles == 2
\* invocations of the build script in one behaviour
MaxRuns == 2

(***************************************************************************)
(* Names, as UTF-8 bytes.                                                  *)
(***************************************************************************)
N_Some   == <<83, 111, 109, 101>>
N_None   == <<78, 111, 110, 101>>
N_Ok     == <<79, 107>>
N_Err    == <<69, 114, 114>>
N_Circle == <<67, 105, 114, 99, 108, 101>>
N_Square == <<83, 113, 117, 97, 114, 101>>
N_17     == <<95, 49, 55>>
N_a      == <<97>>
N_b      == <<98>>
N_q      == <<113>>
N_v      == <<118>>
N_w      == <<119>>
N_x      == <<120>>
N_xy     == <<120, 121>>
N_y      == <<121>>
N_z      == <<122>>

\* the decimal digits of n, as bytes (n >= 0)
RECURSIVE Decimal(_)
Decimal(n) == IF n < 10 THEN <<48 + n>> ELSE Decimal(n \div 10) \o <<48 + (n % 10)>>

\* the tuple-field name `_n`
TupleField(n) == <<95>> \o Decimal(n)

(***************************************************************************)
(* Syntax trees (syn::File and below).  Every node is a record of the same *)
(* shape; `kind` says which fields matter.                                 *)
(*   struct: named (syn::Fields::Named?), members (the fields)             *)
(*   enum:   members (the variants)                                        *)
(*   fn:     attrs, inputs (sig.inputs), body (everything the default      *)
(*           traversal reaches below the function)                         *)
(*   mod:    body (the items of the module)                                *)
(*   macro:  path, tokens                                                  *)
(* A member (field or variant) has ident, attrs and `inner`, the macro     *)
(* invocations inside it (a field's type, a variant's fields or            *)
(* discriminant).                                                          *)
(***************************************************************************)
Seg(id, hasArgs) == [ident |-> id, arguments |-> hasArgs]
Path(colon, segs) == [leading_colon |-> colon, segments |-> segs]
SimplePath(id) == Path(FALSE, <<Seg(id, FALSE)>>)
NoPath == Path(FALSE, <<>>)
NoTokens == [pat |-> "err", fields |-> <<>>]

Node(k, at, nm, ms, ins, bd, p, ts) ==
    [kind |-> k, attrs |-> at, named |-> nm, members |-> ms, inputs |-> ins,
     body |-> bd, path |-> p, tokens |-> ts]
Struct(ms)      == Node("struct", <<>>, TRUE, ms, <<>>, <<>>, NoPath, NoTokens)
TupleStruct(ms) == Node("struct", <<>>, FALSE, ms, <<>>, <<>>, NoPath, NoTokens)
Enum(ms)        == Node("enum", <<>>, FALSE, ms, <<>>, <<>>, NoPath, NoTokens)
Fn(at, ins, bd) == Node("fn", at, FALSE, <<>>, ins, bd, NoPath, NoTokens)
Mod(bd)         == Node("mod", <<>>, FALSE, <<>>, <<>>, bd, NoPath, NoTokens)
Macro(p, ts)    == Node("macro", <<>>, FALSE, <<>>, <<>>, <<>>, p, ts)

Member(id, at, inner) == [ident |-> id, attrs |-> at, inner |-> inner]
Tagged(id)   == Member(id, <<SimplePath("optic")>>, <<>>)
Untagged(id) == Member(id, <<>>, <<>>)

\* a function argument: the receiver, `id: Type`, or a destructuring pattern
Receiver      == [arg |-> "receiver", pat |-> "none", ident |-> <<>>]
TypedIdent(id) == [arg |-> "typed", pat |-> "ident", ident |-> id]
TypedOther    == [arg |-> "typed", pat |-> "tuple", ident |-> <<>>]

\* the tokens of a macro invocation: whether `structx_ { tokens }` parses as
\* a pattern, and the members of the struct pattern it parses to
FieldPat(named, id) == [named |-> named, ident |-> id]
FieldTokens(fs) == [pat |-> "struct", fields |-> fs]
BadTokens(fs)   == [pat |-> "err", fields |-> fs]

(***************************************************************************)
(* The source files a workspace is drawn from.  A file is the outcome of   *)
(* fs::read (io), of String::from_utf8 (utf8), of syn::parse_file (parses) *)
(* and the syntax tree its text describes (items).                         *)
(***************************************************************************)
SourceFile(io, utf8, parses, items) ==
    [io |-> io, utf8 |-> utf8, parses |-> parses, items |-> items]
Parsed(items) == SourceFile(TRUE, TRUE, TRUE, items)

\* struct Point { #[optic] x: i32, #[optic] y: i32 }
PointFile == Parsed(<<Struct(<<Tagged(N_x), Tagged(N_y)>>)>>)

\* enum Shape { #[optic] Circle(f64), Square(f64), #[::optic] #[doc] xy }
ShapeFile ==
    Parsed(<<Enum(<<Tagged(N_Circle), Untagged(N_Square),
                    Member(N_xy, <<Path(TRUE, <<Seg("optic", FALSE)>>),
                                   SimplePath("doc")>>, <<>>)>>)>>)

\* every reserved name tagged, next to `_17` and `x`; a tuple struct whose
\* unnamed field is tagged
ReservedFile ==
    Parsed(<<Enum(<<Tagged(N_Some), Tagged(N_None), Tagged(N_Ok), Tagged(N_Err)>>),
             Struct([i \in 1..18 |-> Tagged(TupleField(i - 1))] \o <<Tagged(N_x)>>),
             TupleStruct(<<Tagged(<<>>)>>)>>)

\* text that does not parse (it spells a tagged field z)
BrokenFile == SourceFile(TRUE, TRUE, FALSE, <<Struct(<<Tagged(N_z)>>)>>)

\* a path fs::read fails on
UnreadableFile == SourceFile(FALSE, TRUE, FALSE, <<>>)

\* bytes that are not UTF-8
NonUtf8File == SourceFile(TRUE, FALSE, FALSE, <<>>)

\* #[inline] #[named_args] fn f(&self, a: A, Ok: B) {
\*     structx!{ b }; struct S { #[optic] y: u8 } ::structx!{ q } }
\* struct Foo { x: Structx!{ w: i32 } }
\* enum E { Square(Structx!{ v: i32 }) }
\* mod m { Structx!{ b, Some } }
SugarFile ==
    Parsed(<<Fn(<<SimplePath("inline"), SimplePath("named_args")>>,
                <<Receiver, TypedIdent(N_a), TypedIdent(N_Ok)>>,
                <<Macro(SimplePath("structx"), FieldTokens(<<FieldPat(TRUE, N_b)>>)),
                  Struct(<<Tagged(N_y)>>),
                  Macro(Path(TRUE, <<Seg("structx", FALSE)>>),
                        FieldTokens(<<FieldPat(TRUE, N_q)>>))>>),
             Struct(<<Member(N_x, <<>>,
                        <<Macro(SimplePath("Structx"),
                                FieldTokens(<<FieldPat(TRUE, N_w)>>))>>)>>),
             Enum(<<Member(N_Square, <<>>,
                        <<Macro(SimplePath("structx"),
                                FieldTokens(<<FieldPat(TRUE, N_v)>>))>>)>>),
             Mod(<<Macro(SimplePath("Structx"),
                         FieldTokens(<<FieldPat(TRUE, N_b), FieldPat(TRUE, N_Some)>>))>>)>>)

\* Structx!{ z: Vec<u8> } (the tokens are no pattern); struct A { #[optic] x: u8 }
LooseSugarFile ==
    Parsed(<<Macro(SimplePath("Structx"), BadTokens(<<FieldPat(TRUE, N_z)>>)),
             Struct(<<Tagged(N_x)>>)>>)

\* structx!{ 0: x }
PositionalFile ==
    Parsed(<<Macro(SimplePath("structx"), FieldTokens(<<FieldPat(FALSE, <<48>>)>>))>>)

\* #[named_args] fn g(a: A, (b, c): (B, C)) {}
DestructFile ==
    Parsed(<<Fn(<<SimplePath("named_args")>>, <<TypedIdent(N_a), TypedOther>>, <<>>)>>)

FilePool ==
    <<PointFile, ShapeFile, ReservedFile, BrokenFile, UnreadableFile, NonUtf8File,
      SugarFile, LooseSugarFile, PositionalFile, DestructFile>>
FileIds == DOMAIN FilePool

(***************************************************************************)
(* OpticsCollector: the visitor.  The collector's state is the name set    *)
(* and whether a panic! has been raised.                                   *)
(***************************************************************************)
Collector(set, panic) == [set |-> set, panic |-> panic]

\* syn::Path::is_ident
is_ident(path, id) ==
    /\ ~path.leading_colon
    /\ Len(path.segments) = 1
    /\ ~path.segments[1].arguments
    /\ path.segments[1].ident = id

\* any attribute taken for the tag
variant_with_any_attr(var) == var.attrs # <<>>

variant_with_optic_attr(var) ==
    \E i \in DOMAIN var.attrs : is_ident(var.attrs[i], "optic")

field_with_optic_attr(field) ==
    \E i \in DOMAIN field.attrs : is_ident(field.attrs[i], "optic")

visit_item_enum(c, item_enum) ==
    Collector(c.set \cup {item_enum.members[i].ident :
                            i \in {j \in DOMAIN item_enum.members :
                                     variant_with_optic_attr(item_enum.members[j])}},
              c.panic)

\* the set assigned instead of inserted into
visit_item_struct_Overwrite(c, item_struct) ==
    IF item_struct.named
    THEN Collector({item_struct.members[i].ident :
                      i \in {j \in DOMAIN item_struct.members :
                               field_with_optic_attr(item_struct.members[j])}},
                   c.panic)
    ELSE c

visit_item_struct(c, item_struct) ==
    IF item_struct.named
    THEN Collector(c.set \cup {item_struct.members[i].ident :
                                 i \in {j \in DOMAIN item_struct.members :
                                          field_with_optic_attr(item_struct.members[j])}},
                   c.panic)
    ELSE c

add_structx_field_names(c, field_names) ==
    Collector(c.set \cup {field_names[i] : i \in DOMAIN field_names}, c.panic)

wrap_struct_name(struct_name, input) == [name |-> struct_name, group |-> input]

\* syn::parse2::<syn::Pat> on `name { group }`
ParsePat(ts) ==
    IF ts.group.pat = "err"
    THEN [ok |-> FALSE, kind |-> "none", fields |-> <<>>]
    ELSE [ok |-> TRUE, kind |-> ts.group.pat, fields |-> ts.group.fields]

\* positional members skipped instead of refused
parse_structx_Lenient(c, input) ==
    LET pat == ParsePat(wrap_struct_name("structx_", input))
        named == SelectSeq(pat.fields, LAMBDA f : f.named)
    IN  IF ~pat.ok THEN c
        ELSE add_structx_field_names(c, [i \in DOMAIN named |-> named[i].ident])

parse_structx(c, input) ==
    LET pat == ParsePat(wrap_struct_name("structx_", input)) IN
    IF ~pat.ok THEN c
    ELSE IF pat.kind # "struct" THEN Collector(c.set, TRUE)
    ELSE IF \E i \in DOMAIN pat.fields : ~pat.fields[i].named
         THEN Collector(c.set, TRUE)
         ELSE add_structx_field_names(c, [i \in DOMAIN pat.fields |-> pat.fields[i].ident])

visit_macro(c, mac, structx) ==
    IF /\ structx
       /\ ~mac.path.leading_colon
       /\ Len(mac.path.segments) = 1
       /\ ~mac.path.segments[1].arguments
       /\ mac.path.segments[1].ident \in {"structx", "Structx"}
    THEN parse_structx(c, mac.tokens)
    ELSE c

\* the `named_args` part of visit_item_fn, after the default traversal
named_args(c, item_fn) ==
    IF \E i \in DOMAIN item_fn.attrs :
          /\ ~item_fn.attrs[i].leading_colon
          /\ Len(item_fn.attrs[i].segments) = 1
          /\ item_fn.attrs[i].segments[1].ident = "named_args"
    THEN IF \E k \in DOMAIN item_fn.inputs :
               item_fn.inputs[k].arg = "typed" /\ item_fn.inputs[k].pat # "ident"
         THEN Collector(c.set, TRUE)
         ELSE LET typed == SelectSeq(item_fn.inputs, LAMBDA a : a.arg = "typed")
              IN  add_structx_field_names(c, [k \in DOMAIN typed |-> typed[k].ident])
    ELSE c

\* The traversal: syn::visit's default methods reach the items of a module
\* and everything below a function; visit_item_struct and visit_item_enum
\* are overridden without a call to the default, so nothing below a struct
\* or an enum is visited.
RECURSIVE visit_node(_, _, _), visit_nodes(_, _, _)
visit_node(c, node, structx) ==
    CASE node.kind = "struct" -> visit_item_struct(c, node)
      [] node.kind = "enum"   -> visit_item_enum(c, node)
      [] node.kind = "macro"  -> visit_macro(c, node, structx)
      [] node.kind = "mod"    -> visit_nodes(c, node.body, structx)
      [] node.kind = "fn"     ->
            LET below == visit_nodes(c, node.body, structx) IN
            IF structx /\ ~below.panic THEN named_args(below, node) ELSE below

visit_nodes(c, nodes, structx) ==
    IF nodes = <<>> \/ c.panic THEN c
    ELSE visit_nodes(visit_node(c, Head(nodes), structx), Tail(nodes), structx)

visit_file(c, syntax, structx) == visit_nodes(c, syntax, structx)

\* syn::parse_file
parse_file(contents) ==
    IF contents.parses THEN [ok |-> TRUE, syntax |-> contents.items]
    ELSE [ok |-> FALSE, syntax |-> <<>>]

(***************************************************************************)
(* Filtering, sorting and rendering.                                       *)
(***************************************************************************)
\* the list of the filter closure, ending at _15
IsReserved_UpTo15(o) ==
    o \in {<<83, 111, 109, 101>>, <<78, 111, 110, 101>>, <<79, 107>>, <<69, 114, 114>>,
           <<95, 48>>, <<95, 49>>, <<95, 50>>, <<95, 51>>, <<95, 52>>, <<95, 53>>,
           <<95, 54>>, <<95, 55>>, <<95, 56>>, <<95, 57>>, <<95, 49, 48>>,
           <<95, 49, 49>>, <<95, 49, 50>>, <<95, 49, 51>>, <<95, 49, 52>>,
           <<95, 49, 53>>}

\* the matches! of the filter closure
IsReserved(o) ==
    o \in {<<83, 111, 109, 101>>, <<78, 111, 110, 101>>, <<79, 107>>, <<69, 114, 114>>,
           <<95, 48>>, <<95, 49>>, <<95, 50>>, <<95, 51>>, <<95, 52>>, <<95, 53>>,
           <<95, 54>>, <<95, 55>>, <<95, 56>>, <<95, 57>>, <<95, 49, 48>>,
           <<95, 49, 49>>, <<95, 49, 50>>, <<95, 49, 51>>, <<95, 49, 52>>,
           <<95, 49, 53>>, <<95, 49, 54>>}

\* the filter over the set
FilterReserved(set) == {o \in set : ~IsReserved(o)}

\* Ord for String: byte-lexicographic
RECURSIVE StrLess(_, _)
StrLess(s, t) ==
    IF t = <<>> THEN FALSE
    ELSE IF s = <<>> THEN TRUE
    ELSE IF Head(s) # Head(t) THEN Head(s) < Head(t)
    ELSE StrLess(Tail(s), Tail(t))

RECURSIVE InsertSorted(_, _)
InsertSorted(v, o) ==
    IF v = <<>> THEN <<o>>
    ELSE IF StrLess(o, Head(v)) THEN <<o>> \o v
    ELSE <<Head(v)>> \o InsertSorted(Tail(v), o)

\* the Vec left in the order the iterator gave
SortVec_Unsorted(v) == v

\* Vec::sort
RECURSIVE SortVec(_)
SortVec(v) == IF v = <<>> THEN <<>> ELSE InsertSorted(SortVec(Tail(v)), Head(v))

\* the orders in which the HashSet's iterator can yield the elements of set
RECURSIVE Orders(_)
Orders(set) ==
    IF set = {} THEN {<<>>}
    ELSE UNION {{<<o>> \o rest : rest \in Orders(set \ {o})} : o \in set}

\* the format! of one name: the raw string literal with {} replaced
TemplateHead ==
    <<10, 10, 35, 91, 100, 101, 114, 105, 118, 101, 40, 67, 111, 112, 121, 44, 32, 67,
      108, 111, 110, 101, 44, 32, 68, 101, 98, 117, 103, 44, 32, 69, 113, 44, 32, 80,
      97, 114, 116, 105, 97, 108, 69, 113, 41, 93, 10, 35, 91, 97, 108, 108, 111, 119,
      40, 110, 111, 110, 95, 99, 97, 109, 101, 108, 95, 99, 97, 115, 101, 95, 116, 121,
      112, 101, 115, 41, 93, 10, 112, 117, 98, 32, 115, 116, 114, 117, 99, 116, 32>>
TemplateTail ==
    <<60, 79, 112, 116, 105, 99, 115, 62, 40, 112, 117, 98, 32, 79, 112, 116, 105, 99,
      115, 41, 59, 10, 10>>
\* the literal with one leading newline
Format_OneNewline(optic_name) == Tail(TemplateHead) \o optic_name \o TemplateTail

Format(optic_name) == TemplateHead \o optic_name \o TemplateTail

(***************************************************************************)
(* The output file and the build orchestration's channel.                  *)
(***************************************************************************)
Absent == [kind |-> "absent", content |-> <<>>]
Text(bytes) == [kind |-> "text", content |-> bytes]
Binary == [kind |-> "binary", content |-> <<>>]

\* std::fs::read_to_string
read_to_string(f) ==
    IF f.kind = "text" THEN [ok |-> TRUE, text |-> f.content]
    ELSE [ok |-> FALSE, text |-> <<>>]

\* the comparison of the contents forgotten
Unchanged_ReadOnly(read, out) == read.ok

\* `if let Ok(file) = ... { if file == output`
Unchanged(read, out) == read.ok /\ read.text = out

\* one println! of the loop over the manifests
Directive(manifest) == [directive |-> "cargo:rerun-if-changed=", path |-> manifest]
Directives(ms) == [i \in DOMAIN ms |-> Directive(ms[i])]

(***************************************************************************)
(* Workspaces: what inwelling() returns.  A section is a manifest path     *)
(* (an opaque id) and rs_paths, None or the files of the member; a path is *)
(* identified with the file it holds.                                      *)
(***************************************************************************)
Section(m, some, paths) == [manifest |-> m, rs_paths |-> [some |-> some, paths |-> paths]]

\* the files of a workspace, listed in the order of their ids (Shuffle below
\* gives the other orders)
PathLists ==
    UNION {{l \in [1..k -> FileIds] : \A i, j \in 1..k : i < j => l[i] <= l[j]} :
             k \in 0..MaxFiles}

\* the files of flat that owner gives to member m, in order
RECURSIVE Owned(_, _, _)
Owned(flat, owner, m) ==
    IF flat = <<>> THEN <<>>
    ELSE (IF Head(owner) = m THEN <<Head(flat)>> ELSE <<>>)
         \o Owned(Tail(flat), Tail(owner), m)

Workspaces ==
    UNION {
      UNION {
        UNION {
          { [m \in 1..n |-> Section(m, m \notin none, Owned(flat, owner, m))] :
              none \in SUBSET {m \in 1..n : \A i \in DOMAIN owner : owner[i] # m} }
          : owner \in {o \in [DOMAIN flat -> 1..n] :
                         \A i, j \in DOMAIN flat : i < j => o[i] <= o[j]} }
        : flat \in PathLists }
      : n \in 0..MaxMembers }

Perms(n) == {p \in [1..n -> 1..n] : \A i, j \in 1..n : i # j => p[i] # p[j]}

NoRun == [some |-> FALSE, vec |-> <<>>, output |-> <<>>]

VARIABLES
    structx,      \* cfg(feature = "structx")
    sections,     \* the workspace on disk, as inwelling() presents it
    file,         \* $OUT_DIR/optics.rs
    pc,           \* where main is
    runs,         \* invocations so far
    sec_i,        \* the section the outer loop is at
    path_i,       \* the path the inner loop is at
    collector,    \* optics_set, and whether the process has panicked
    manifests,    \* main's `manifests`
    optics_vec,   \* the sorted Vec
    emit_i,       \* the name the rendering loop is at
    output,       \* main's `output`
    stdout,       \* the lines printed
    prev,         \* history: the sequence and output of the last completed run
    since         \* history: the change the disk has undergone between runs

vars == <<structx, sections, file, pc, runs, sec_i, path_i, collector, manifests,
          optics_vec, emit_i, output, stdout, prev, since>>

Init ==
    /\ structx \in BOOLEAN
    /\ sections \in Workspaces
    /\ file = Absent
    /\ pc = "idle"
    /\ runs = 0
    /\ sec_i = 1
    /\ path_i = 1
    /\ collector = Collector({}, FALSE)
    /\ manifests = <<>>
    /\ optics_vec = <<>>
    /\ emit_i = 1
    /\ output = <<>>
    /\ stdout = <<>>
    /\ prev = NoRun
    /\ since = "none"

Between == pc \in {"idle", "done", "aborted"}

\* cargo invokes the build script: a fresh process
Start ==
    /\ Between
    /\ runs < MaxRuns
    /\ runs' = runs + 1
    /\ pc' = "sections"
    /\ sec_i' = 1
    /\ path_i' = 1
    /\ collector' = Collector({}, FALSE)
    /\ manifests' = <<>>
    /\ optics_vec' = <<>>
    /\ emit_i' = 1
    /\ output' = <<>>
    /\ stdout' = <<>>
    /\ UNCHANGED <<structx, sections, file, prev, since>>

\* where the loops go once path i of section s is done
AfterPath(s, i) ==
    IF i < Len(sections[s].rs_paths.paths)
    THEN [pc |-> "files", sec_i |-> s, path_i |-> i + 1]
    ELSE [pc |-> "sections", sec_i |-> s + 1, path_i |-> 1]

\* the head of the outer loop: manifests.push, section.rs_paths.unwrap()
EnterSection ==
    /\ pc = "sections"
    /\ sec_i <= Len(sections)
    /\ manifests' = Append(manifests, sections[sec_i].manifest)
    /\ IF ~sections[sec_i].rs_paths.some
       THEN pc' = "aborted" /\ UNCHANGED <<sec_i, path_i>>
       ELSE LET to == AfterPath(sec_i, 0) IN
            pc' = to.pc /\ sec_i' = to.sec_i /\ path_i' = to.path_i
    /\ UNCHANGED <<structx, sections, file, runs, collector, optics_vec, emit_i,
                   output, stdout, prev, since>>

\* syn::parse_file(..).unwrap()
ScanResult_Unwrap(c, contents, feature) ==
    IF ~contents.io \/ ~contents.utf8 \/ ~contents.parses THEN Collector(c.set, TRUE)
    ELSE visit_file(c, contents.items, feature)

\* the collector after one path of the inner loop: read, decode, parse, visit
ScanResult(c, contents, feature) ==
    IF ~contents.io \/ ~contents.utf8 THEN Collector(c.set, TRUE)
    ELSE LET parsed == parse_file(contents) IN
         IF parsed.ok THEN visit_file(c, parsed.syntax, feature) ELSE c

ScanFile ==
    /\ pc = "files"
    /\ LET c == ScanResult(collector, FilePool[sections[sec_i].rs_paths.paths[path_i]],
                           structx)
           to == AfterPath(sec_i, path_i)
       IN  /\ collector' = c
           /\ IF c.panic
              THEN pc' = "aborted" /\ UNCHANGED <<sec_i, path_i>>
              ELSE pc' = to.pc /\ sec_i' = to.sec_i /\ path_i' = to.path_i
    /\ UNCHANGED <<structx, sections, file, runs, manifests, optics_vec, emit_i,
                   output, stdout, prev, since>>

\* into_iter().filter(..).collect() and sort()
Canonicalize ==
    /\ pc = "sections"
    /\ sec_i > Len(sections)
    /\ \E order \in Orders(FilterReserved(collector.set)) :
          optics_vec' = SortVec(order)
    /\ emit_i' = 1
    /\ pc' = "emit"
    /\ UNCHANGED <<structx, sections, file, runs, sec_i, path_i, collector, manifests,
                   output, stdout, prev, since>>

\* each block written to the file as it is rendered
EmitBlock_Streaming ==
    /\ pc = "emit"
    /\ emit_i <= Len(optics_vec)
    /\ output' = output \o Format(optics_vec[emit_i])
    /\ file' = Text(output')
    /\ emit_i' = emit_i + 1
    /\ UNCHANGED <<structx, sections, pc, runs, sec_i, path_i, collector,
                   manifests, optics_vec, stdout, prev, since>>

\* one iteration of the rendering loop
EmitBlock ==
    /\ pc = "emit"
    /\ emit_i <= Len(optics_vec)
    /\ output' = output \o Format(optics_vec[emit_i])
    /\ emit_i' = emit_i + 1
    /\ UNCHANGED <<structx, sections, file, pc, runs, sec_i, path_i, collector,
                   manifests, optics_vec, stdout, prev, since>>

\* env::var("OUT_DIR").expect(..): the variable is set or it is not
OutPath ==
    /\ pc = "emit"
    /\ emit_i > Len(optics_vec)
    /\ pc' \in {"decide", "aborted"}
    /\ UNCHANGED <<structx, sections, file, runs, sec_i, path_i, collector, manifests,
                   optics_vec, emit_i, output, stdout, prev, since>>

\* the comparison with the previous run's file
Decide ==
    /\ pc = "decide"
    /\ stdout' = IF Unchanged(read_to_string(file), output)
                 THEN stdout \o Directives(manifests)
                 ELSE stdout
    /\ pc' = "write"
    /\ UNCHANGED <<structx, sections, file, runs, sec_i, path_i, collector, manifests,
                   optics_vec, emit_i, output, prev, since>>

\* std::fs::write(out_path, output), taken to succeed
Write ==
    /\ pc = "write"
    /\ file' = Text(output)
    /\ pc' = "done"
    /\ prev' = [some |-> TRUE, vec |-> optics_vec, output |-> output]
    /\ UNCHANGED <<structx, sections, runs, sec_i, path_i, collector, manifests,
                   optics_vec, emit_i, output, stdout, since>>

(***************************************************************************)
(* The disk changes at most once in a behaviour, after a completed run and *)
(* before another one.                                                     *)
(***************************************************************************)
Interlude == pc = "done" /\ since = "none" /\ runs < MaxRuns

\* the file a rewritten source file turns into
Edited(id) == (id % Len(FilePool)) + 1

SetPaths(m, paths) ==
    [sections EXCEPT ![m].rs_paths.paths = paths]

\* a source file is rewritten
EditSource ==
    /\ Interlude
    /\ \E m \in DOMAIN sections : \E i \in DOMAIN sections[m].rs_paths.paths :
         sections' = SetPaths(m, [sections[m].rs_paths.paths EXCEPT
                                     ![i] = Edited(sections[m].rs_paths.paths[i])])
    /\ since' = "edit"
    /\ UNCHANGED <<structx, file, pc, runs, sec_i, path_i, collector, manifests,
                   optics_vec, emit_i, output, stdout, prev>>

\* inwelling() presents the members, or the files of a member, in another order
Shuffle ==
    /\ Interlude
    /\ \/ \E p \in Perms(Len(sections)) :
            /\ \E k \in DOMAIN p : p[k] # k
            /\ sections' = [k \in DOMAIN sections |-> sections[p[k]]]
       \/ \E m \in DOMAIN sections :
            \E p \in Perms(Len(sections[m].rs_paths.paths)) :
               /\ \E k \in DOMAIN p : p[k] # k
               /\ sections' = SetPaths(m, [k \in DOMAIN p |->
                                              sections[m].rs_paths.paths[p[k]]])
    /\ since' = "shuffle"
    /\ UNCHANGED <<structx, file, pc, runs, sec_i, path_i, collector, manifests,
                   optics_vec, emit_i, output, stdout, prev>>

\* s without its i-th element
Remove(s, i) == [k \in 1..(Len(s) - 1) |-> IF k < i THEN s[k] ELSE s[k + 1]]

\* a source file that does not parse is deleted
Prune ==
    /\ Interlude
    /\ \E m \in DOMAIN sections : \E i \in DOMAIN sections[m].rs_paths.paths :
         LET contents == FilePool[sections[m].rs_paths.paths[i]] IN
         /\ contents.io /\ contents.utf8 /\ ~contents.parses
         /\ sections' = SetPaths(m, Remove(sections[m].rs_paths.paths, i))
    /\ since' = "prune"
    /\ UNCHANGED <<structx, file, pc, runs, sec_i, path_i, collector, manifests,
                   optics_vec, emit_i, output, stdout, prev>>

\* optics.rs is deleted or overwritten by something else
Tamper ==
    /\ Interlude
    /\ file' \in {Absent, Binary, Text(<<>>), Text(Format(N_x))} \ {file}
    /\ since' = "tamper"
    /\ UNCHANGED <<structx, sections, pc, runs, sec_i, path_i, collector, manifests,
                   optics_vec, emit_i, output, stdout, prev>>

Next ==
    \/ Start
    \/ EnterSection
    \/ ScanFile
    \/ Canonicalize
    \/ EmitBlock
    \/ OutPath
    \/ Decide
    \/ Write
    \/ EditSource
    \/ Shuffle
    \/ Prune
    \/ Tamper

Spec == Init /\ [][Next]_vars

(***************************************************************************)
(* Vocabulary of the properties: lines of a text, declaration blocks,      *)
(* the reserved names, and what a syntax tree tags.                        *)
(***************************************************************************)
NewlineAt(text) == {i \in DOMAIN text : text[i] = 10}
\* the lines of text from position start on, nl being the newlines left
RECURSIVE LinesFrom(_, _, _)
LinesFrom(text, start, nl) ==
    IF nl = {} THEN <<>>
    ELSE LET e == CHOOSE i \in nl : \A j \in nl : i <= j
         IN  <<SubSeq(text, start, e - 1)>> \o LinesFrom(text, e + 1, nl \ {e})
\* the lines of the text, each without the newline that ends it
Lines(text) == LinesFrom(text, 1, NewlineAt(text))
\* every line of the text is ended by a newline
Terminated(text) == text = <<>> \/ text[Len(text)] = 10

DeriveLine ==
    <<35, 91, 100, 101, 114, 105, 118, 101, 40, 67, 111, 112, 121, 44, 32, 67, 108, 111,
      110, 101, 44, 32, 68, 101, 98, 117, 103, 44, 32, 69, 113, 44, 32, 80, 97, 114,
      116, 105, 97, 108, 69, 113, 41, 93>>
AllowLine ==
    <<35, 91, 97, 108, 108, 111, 119, 40, 110, 111, 110, 95, 99, 97, 109, 101, 108, 95,
      99, 97, 115, 101, 95, 116, 121, 112, 101, 115, 41, 93>>
StructPrefix == <<112, 117, 98, 32, 115, 116, 114, 117, 99, 116, 32>>
StructSuffix ==
    <<60, 79, 112, 116, 105, 99, 115, 62, 40, 112, 117, 98, 32, 79, 112, 116, 105, 99,
      115, 41, 59>>
StructLine(name) == StructPrefix \o name \o StructSuffix

IsStructLine(l) ==
    /\ Len(l) >= Len(StructPrefix) + Len(StructSuffix)
    /\ SubSeq(l, 1, Len(StructPrefix)) = StructPrefix
    /\ SubSeq(l, Len(l) - Len(StructSuffix) + 1, Len(l)) = StructSuffix
NameOfLine(l) == SubSeq(l, Len(StructPrefix) + 1, Len(l) - Len(StructSuffix))

\* the names the text declares, in the order of their declarations
Declared(text) ==
    LET ls == SelectSeq(Lines(text), IsStructLine)
    IN  [k \in DOMAIN ls |-> NameOfLine(ls[k])]
Range(seq) == {seq[k] : k \in DOMAIN seq}

ReservedNames ==
    {N_Some, N_None, N_Ok, N_Err} \cup {TupleField(n) : n \in 0..16}

\* the files of the workspace, and those of them that parse
FilesOf(ws) ==
    UNION {Range(ws[m].rs_paths.paths) : m \in DOMAIN ws}
ParsedFiles == {f \in FilesOf(sections) : FilePool[f].parses}

HasOpticTag(member) == \E i \in DOMAIN member.attrs : member.attrs[i] = SimplePath("optic")

\* the idents tagged `optic` on an enum variant or a named struct field, at
\* top level, in a module or below a function
RECURSIVE OpticTagged(_)
OpticTagged(nodes) ==
    IF nodes = <<>> THEN {}
    ELSE LET node == Head(nodes) IN
         (CASE node.kind = "enum" \/ (node.kind = "struct" /\ node.named) ->
                 {node.members[i].ident :
                     i \in {j \in DOMAIN node.members : HasOpticTag(node.members[j])}}
            [] node.kind \in {"mod", "fn"} -> OpticTagged(node.body)
            [] OTHER -> {})
         \cup OpticTagged(Tail(nodes))

\* every macro invocation of the tree; `deep` says whether those inside a
\* struct or an enum declaration count
RECURSIVE Macros(_, _)
Macros(nodes, deep) ==
    IF nodes = <<>> THEN {}
    ELSE LET node == Head(nodes) IN
         (CASE node.kind = "macro" -> {node}
            [] node.kind \in {"mod", "fn"} -> Macros(node.body, deep)
            [] node.kind \in {"struct", "enum"} /\ deep ->
                 UNION {Macros(node.members[i].inner, deep) : i \in DOMAIN node.members}
            [] OTHER -> {})
         \cup Macros(Tail(nodes), deep)

\* every function of the tree
RECURSIVE Fns(_)
Fns(nodes) ==
    IF nodes = <<>> THEN {}
    ELSE LET node == Head(nodes) IN
         (CASE node.kind = "fn" -> {node} \cup Fns(node.body)
            [] node.kind = "mod" -> Fns(node.body)
            [] OTHER -> {})
         \cup Fns(Tail(nodes))

\* an unqualified, argument-free structx!/Structx! invocation
IsStructxCall(mac) ==
    mac.path = SimplePath("structx") \/ mac.path = SimplePath("Structx")
\* the tokens form a named-field struct pattern
ValidTokens(ts) == ts.pat = "struct" /\ \A i \in DOMAIN ts.fields : ts.fields[i].named
\* the tokens parse as a pattern that is no named-field struct pattern
WrongPattern(ts) == ts.pat # "err" /\ ~ValidTokens(ts)
FieldNames(ts) == {ts.fields[i].ident : i \in DOMAIN ts.fields}

\* the names the sugar forms of a tree can contribute
SugarNames(nodes) ==
    UNION {FieldNames(mac.tokens) : mac \in Macros(nodes, TRUE)}
    \cup UNION {{fn.inputs[k].ident : k \in DOMAIN fn.inputs} : fn \in Fns(nodes)}

\* main has rendered every name
Emitted == pc \in {"decide", "write"}
\* a run completed before this one and the sources and the output file
\* have not changed since
SameSources == prev.some /\ since \in {"none", "shuffle"}

(***************************************************************************)
(* Properties.                                                             *)
(***************************************************************************)

\* C1: when the previous run completed and wrote its output, and neither the
\* sources nor the output file changed since, the run reads the file back,
\* finds it equal to its own output and prints exactly one
\* cargo:rerun-if-changed directive per workspace member's manifest path.
C1_RerunSuppressed ==
    (pc = "write" /\ SameSources) =>
        /\ file = Text(output)
        /\ stdout = [m \in DOMAIN sections |->
                        [directive |-> "cargo:rerun-if-changed=",
                         path |-> sections[m].manifest]]

C1_Witness ==
    /\ pc = "write" /\ prev.some /\ since = "none"
    /\ Len(stdout) = 2 /\ Len(optics_vec) >= 2

\* C2: directives are on stdout only once the read of the existing file
\* succeeded with content equal to the new output; a failed read or a
\* different content leaves stdout empty.
C2_DirectivesOnlyIfUnchanged ==
    /\ stdout # <<>> => pc \in {"write", "done"}
    /\ pc = "write" =>
          IF file.kind = "text" /\ file.content = output
          THEN \A k \in DOMAIN stdout :
                  /\ stdout[k].directive = "cargo:rerun-if-changed="
                  /\ \E m \in DOMAIN sections : stdout[k].path = sections[m].manifest
          ELSE stdout = <<>>

C2_Witness ==
    /\ pc = "write" /\ stdout = <<>> /\ sections # <<>>
    /\ file.kind = "text" /\ file.content # output /\ output # <<>>

\* C3: inside a run the output file changes in the final write only, so a
\* run that aborts leaves the file as it found it.
C3_WriteIsLast ==
    [][~Between => (file' = file \/ (pc = "write" /\ pc' = "done"))]_vars

C3_Witness ==
    /\ pc = "aborted" /\ runs = 2 /\ prev.some
    /\ file = Text(prev.output) /\ prev.output # <<>>

\* C4: the output declares no reserved name (Some, None, Ok, Err, _0 .. _16)
\* and declares every other collected name.
C4_ReservedExcluded ==
    Emitted =>
        /\ Range(Declared(output)) \cap ReservedNames = {}
        /\ collector.set \ ReservedNames \subseteq Range(Declared(output))

C4_Witness ==
    /\ Emitted /\ structx
    /\ \E f, g \in FilesOf(sections) :
          FilePool[f] = ReservedFile /\ FilePool[g] = SugarFile
    /\ ReservedNames \subseteq collector.set
    /\ {N_17, N_a} \subseteq Range(Declared(output))

C6_OrderIndependent ==
    (Emitted /\ SameSources) => (optics_vec = prev.vec /\ output = prev.output)

C6_Witness ==
    /\ Emitted /\ prev.some /\ since = "shuffle"
    /\ Len(optics_vec) >= 3

\* C7: a file that does not parse is skipped: scanning it neither aborts the
\* run nor changes the name set, and once it is deleted the run yields the
\* same name sequence and output as before.
C7_ParseFailureSkipped ==
    /\ []((Emitted /\ prev.some /\ since = "prune") =>
             (optics_vec = prev.vec /\ output = prev.output))
    /\ [][(/\ pc = "files"
           /\ LET f == FilePool[sections[sec_i].rs_paths.paths[path_i]]
              IN  f.io /\ f.utf8 /\ ~f.parses)
          => (collector' = collector /\ pc' # "aborted")]_vars

C7_Witness ==
    /\ Emitted /\ prev.some /\ since = "prune"
    /\ optics_vec # <<>>

\* C8: the output is one group of six lines per name of the sequence: the
\* blank separator line, then the block (blank line, derive line, allow
\* line, `pub struct <Name><Optics>(pub Optics);`, blank line); nothing
\* follows the last block's blank line, and no names give the empty output.
C8_OutputFormat ==
    Emitted =>
        LET ls == Lines(output) IN
        /\ Terminated(output)
        /\ Len(ls) = 6 * Len(optics_vec)
        /\ optics_vec = <<>> => output = <<>>
        /\ \A k \in DOMAIN optics_vec :
              /\ ls[6 * k - 5] = <<>>
              /\ ls[6 * k - 4] = <<>>
              /\ ls[6 * k - 3] = DeriveLine
              /\ ls[6 * k - 2] = AllowLine
              /\ ls[6 * k - 1] = StructLine(optics_vec[k])
              /\ ls[6 * k] = <<>>

C8_Witness ==
    Emitted /\ Len(optics_vec) >= 2 /\ optics_vec[1] = N_Circle

\* the structx!/Structx! invocations the traversal reaches in the parsed
\* files of the workspace
ReachedCalls ==
    {mac \in UNION {Macros(FilePool[f].items, FALSE) : f \in ParsedFiles} :
        IsStructxCall(mac)}

\* the scan of the workspace as it is on disk is over and has not aborted
ScanPassed == pc \in {"emit", "decide", "write"} \/ (pc = "done" /\ since = "none")

C10_RecognizedEverywhere ==
    (structx /\ pc \in {"emit", "decide", "write"}) =>
        \A f \in ParsedFiles : \A mac \in Macros(FilePool[f].items, TRUE) :
            (IsStructxCall(mac) /\ ValidTokens(mac.tokens)) =>
                FieldNames(mac.tokens) \subseteq collector.set

====
